---- MODULE Spec2Model ----
(***************************************************************************)
(* Model of the Opencodebot Telegram controller: the output-line           *)
(* interpreter (process_output_line), the markup escapers and the          *)
(* streaming relay (stream_opencode_output).                               *)
(*                                                                         *)
(* The repository holds three divergent copies of the controller.  The     *)
(* variable impl selects the copy a run executes:                          *)
(*   "src"  : src/src/telegram_controller.py (imported by src/main.py)     *)
(*   "root" : src/telegram_controller.py                                   *)
(*   "ckpt" : src/src/.ipynb_checkpoints/telegram_controller-checkpoint.py *)
(*                                                                         *)
(* A Python str is a sequence of tokens.  A token is a chunk of            *)
(* characters (f = "chr"), the compact JSON text of a document as the      *)
(* Agent Process wrote it (f = "compact"), or the text json.dumps(x,       *)
(* indent=2) produces (f = "indent2").  JSON object fields hold strings    *)
(* only; the opaque tool input/output objects are named by a string.       *)
(***************************************************************************)
EXTENDS Integers, Sequences, FiniteSets, TLC

\* ------------------------------------------------------------------ bounds
MaxLen == 3      \* longest character-only line given to process_output_line
MaxPad == 1      \* longest run of characters put around a JSON document
MaxLines == 2    \* most stdout lines one Agent Process run writes
MaxCalls == 1    \* most relay invocations in one behaviour
MaxOps == 3      \* most session-registry calls in one behaviour
NThreads == 2    \* handler threads that may run registry calls at once
MaxSessions == 2 \* most sessions the session-list command reports
MaxUpdates == 2  \* updates the bot handles in one run
MaxEsc == 2      \* longest text given to an escaper called alone
PipeCapacity == 2 \* chunks the stderr pipe holds before a write to it blocks
TickSeconds == 50 \* seconds between two looks at the clock of a blocking run
MaxTime == 400   \* seconds after which the clock of a blocking run is not advanced

\* --------------------------------------------------------------- constants
COMMAND_TIMEOUT == 300

Impls == {"src", "root", "ckpt"}

\* ------------------------------------------------------- Python strings
WS == {" ", "\n"}
Digits == {"7"}

NoField == [has |-> FALSE, v |-> <<>>]
NoState == [sj |-> "absent", status |-> NoField, input |-> "<absent>", output |-> "<absent>"]
NoPart == [pj |-> "absent", text |-> NoField, tool |-> NoField, state |-> NoState]
NoDoc == [j |-> "none", type |-> "<absent>", text |-> NoField, part |-> NoPart,
          tool_name |-> NoField, tool |-> NoField, input |-> "<absent>",
          output |-> "<absent>", message |-> NoField, command |-> NoField,
          path |-> NoField, size |-> NoField]

Ch(c) == [c |-> c, d |-> NoDoc, f |-> "chr", esc |-> <<>>]
S(cs) == [i \in 1..Len(cs) |-> Ch(cs[i])]
Fld(cs) == [has |-> TRUE, v |-> S(cs)]
Compact(doc) == [c |-> "", d |-> doc, f |-> "compact", esc |-> <<>>]

IsWS(t) == t.f = "chr" /\ t.c \in WS

RECURSIVE lstrip(_)
lstrip(s) == IF s # <<>> /\ IsWS(Head(s)) THEN lstrip(Tail(s)) ELSE s

RECURSIVE rstrip(_)
rstrip(s) == IF s # <<>> /\ IsWS(s[Len(s)]) THEN rstrip(SubSeq(s, 1, Len(s) - 1)) ELSE s

\* a strip that forgets the trailing whitespace
strip_leading_only(s) == lstrip(s)

strip(s) == lstrip(rstrip(s))

Truthy(s) == Len(s) > 0

\* json.dumps(obj, indent=2) of a decoded document / of an opaque object
json_dumps(doc) == [c |-> "", d |-> doc, f |-> "indent2", esc |-> <<>>]
json_dumps_value(name) == [c |-> name, d |-> NoDoc, f |-> "indent2", esc |-> <<>>]

NumDoc == [NoDoc EXCEPT !.j = "num"]

\* json.loads: surrounding whitespace is allowed, then exactly one document
json_loads(s) ==
    LET t == strip(s) IN
    IF Len(t) = 1 /\ t[1].f = "compact" /\ t[1].esc = <<>>
        THEN [ok |-> TRUE, obj |-> t[1].d]
    ELSE IF Len(t) >= 1 /\ \A i \in 1..Len(t) : t[i].f = "chr" /\ t[i].c \in Digits
        THEN [ok |-> TRUE, obj |-> NumDoc]
    ELSE [ok |-> FALSE, obj |-> NoDoc]

\* ------------------------------------------------------------- escapers
ReservedMd == {"_", "*", "[", "]", "(", ")", "~", "<backtick>", ">", "#", "+", "-",
               "=", "|", "{", "}", ".", "!"}
ReservedOnlyDots == {".", "-", "(", ")", "_", "#", "!", "=", "+"}
ReservedV2 == {"_", "*", "$", "(", ")", "~", "<backtick>", ">", "#", "+", "\\", "-",
               "=", "|", "{", "}", ".", "!"}

RECURSIVE EscapeWith(_, _, _)
EscapeWith(s, reserved, policy) ==
    IF s = <<>> THEN <<>>
    ELSE LET t == Head(s)
             rest == EscapeWith(Tail(s), reserved, policy)
         IN IF t.f = "chr"
               THEN (IF t.c \in reserved THEN <<Ch("\\"), t>> ELSE <<t>>) \o rest
               ELSE <<[t EXCEPT !.esc = Append(t.esc, policy)]>> \o rest

escape_md(text) == EscapeWith(text, ReservedMd, "escape_md")
escape_only_dots(text) == EscapeWith(text, ReservedOnlyDots, "escape_only_dots")
escape_markdown_v2(text) == EscapeWith(text, ReservedV2, "escape_markdown_v2")

\* ---------------------------------------------------- process_output_line
StrRes(s) == [k |-> "str", s |-> s, exc |-> ""]
NoneRes == [k |-> "None", s |-> <<>>, exc |-> ""]
Raise(e) == [k |-> "raise", s |-> <<>>, exc |-> e]

GetOr(field, default) == IF field.has THEN field.v ELSE default

\* `if part:` -- an absent part defaults to {}, which is falsy like null
PartTruthy(part) == part.pj \in {"dict", "nondict"}

\* a block that prints the output after the input
ShownObjects_with_output(inputs, outputs) ==
    <<json_dumps_value(inputs), json_dumps_value(outputs)>>

\* input_json = json.dumps(inputs, indent=2); outputs is read and never printed
ShownObjects(inputs, outputs) == <<json_dumps_value(inputs)>>

\* the tool_use block shared by the three copies; wrap is what the copy does
\* to the pretty-printed input ("md": escape_md, "input": "Input: " prefix)
tool_use_block(obj, wrap) ==
    LET part == obj.part IN
    IF PartTruthy(part) /\ part.pj # "dict" THEN Raise("AttributeError")
    ELSE IF PartTruthy(part) /\ part.state.sj = "nondict" THEN Raise("AttributeError")
    ELSE
      LET tool_name == IF PartTruthy(part)
                          THEN GetOr(part.tool, S(<<"Unknown tool">>))
                          ELSE GetOr(obj.tool_name, GetOr(obj.tool, S(<<"Unknown tool">>)))
          status == IF PartTruthy(part) THEN GetOr(part.state.status, <<>>) ELSE <<>>
          inputs == IF PartTruthy(part)
                       THEN (IF part.state.input = "<absent>" THEN "{}" ELSE part.state.input)
                       ELSE (IF obj.input = "<absent>" THEN "{}" ELSE obj.input)
          outputs == IF PartTruthy(part)
                        THEN (IF part.state.output = "<absent>" THEN "{}" ELSE part.state.output)
                        ELSE (IF obj.output = "<absent>" THEN "{}" ELSE obj.output)
          input_json == ShownObjects(inputs, outputs)
          body == IF wrap = "md" THEN escape_md(input_json)
                  ELSE IF wrap = "input" THEN S(<<"Input:", " ">>) \o input_json
                  ELSE input_json
          result == S(<<"[">>) \o tool_name \o S(<<"]", ":", "\n">>)
                    \o (IF Truthy(status) THEN S(<<"Status:", " ">>) \o status \o S(<<"\n">>) ELSE <<>>)
                    \o S(<<"<fence>", "\n">>) \o body \o S(<<"\n", "<fence>", "\n">>)
      IN StrRes(strip(result))

process_output_line_src(line) ==
    IF ~Truthy(line) THEN StrRes(<<>>)
    ELSE LET r == json_loads(line) IN
      IF ~r.ok THEN StrRes(strip(line))
      ELSE IF r.obj.j # "obj" THEN Raise("AttributeError")
      ELSE LET obj == r.obj IN
        IF obj.type = "text" THEN
            LET text_content == GetOr(obj.text, <<>>)
                part == obj.part
            IN IF PartTruthy(part)
                  THEN (IF part.pj # "dict" THEN Raise("AttributeError")
                        ELSE StrRes(GetOr(part.text, text_content)))
                  ELSE StrRes(text_content)
        ELSE IF obj.type = "tool_use" THEN tool_use_block(obj, "md")
        ELSE StrRes(<<json_dumps(obj)>>)

process_output_line_ckpt(line) ==
    IF ~Truthy(line) THEN StrRes(<<>>)
    ELSE LET r == json_loads(line) IN
      IF ~r.ok THEN StrRes(strip(line))
      ELSE IF r.obj.j # "obj" THEN Raise("AttributeError")
      ELSE LET obj == r.obj IN
        IF obj.type = "step_start" \/ obj.type = "step_finish" THEN StrRes(<<>>)
        ELSE IF obj.type = "text" THEN
            LET text_content == GetOr(obj.text, <<>>)
                part == obj.part
            IN IF PartTruthy(part)
                  THEN (IF part.pj # "dict" THEN Raise("AttributeError")
                        ELSE StrRes(GetOr(part.text, text_content)))
                  ELSE StrRes(text_content)
        ELSE IF obj.type = "tool_use" THEN tool_use_block(obj, "plain")
        ELSE StrRes(<<json_dumps(obj)>>)

process_output_line_root(line) ==
    LET r == json_loads(line) IN
      IF ~r.ok THEN StrRes(strip(line))
      ELSE IF r.obj.j # "obj" THEN Raise("AttributeError")
      ELSE LET obj == r.obj IN
        IF obj.type \in {"step_start", "step_finish"} THEN NoneRes
        ELSE IF obj.type = "text" THEN
            LET text_content == GetOr(obj.text, <<>>)
                part == obj.part
            IN IF Truthy(text_content) THEN StrRes(text_content)
               ELSE IF part.pj \in {"nondict", "null"} THEN Raise("AttributeError")
               ELSE StrRes(GetOr(part.text, <<>>))
        ELSE IF obj.type = "error" THEN
            StrRes(S(<<"Error:", " ">>) \o GetOr(obj.message, <<>>))
        ELSE IF obj.type = "command" THEN
            StrRes(S(<<"Command:", " ">>) \o GetOr(obj.command, <<>>))
        ELSE IF obj.type = "file" THEN
            StrRes(S(<<"File:", " ">>) \o GetOr(obj.path, <<>>) \o S(<<" ", "(">>)
                   \o GetOr(obj.size, <<>>) \o S(<<")">>))
        ELSE IF obj.type = "directory" THEN
            StrRes(S(<<"Directory:", " ">>) \o GetOr(obj.path, <<>>))
        ELSE IF obj.type = "completed" THEN
            StrRes(S(<<"Operation", " ", "completed", " ", "successfully.">>))
        ELSE IF obj.type = "tool_use" THEN tool_use_block(obj, "input")
        ELSE StrRes(<<json_dumps(obj)>>)

process_output_line(im, line) ==
    IF im = "src" THEN process_output_line_src(line)
    ELSE IF im = "root" THEN process_output_line_root(line)
    ELSE process_output_line_ckpt(line)

\* ------------------------------------------------------------ documents
Obj == [NoDoc EXCEPT !.j = "obj"]
TopTexts == {NoField, Fld(<<>>), Fld(<<"T">>), Fld(<<" ">>)}
DictPart == [NoPart EXCEPT !.pj = "dict"]
FullState == [sj |-> "dict", status |-> Fld(<<"success">>), input |-> "{url}", output |-> "{result}"]
TextParts == {NoPart, [NoPart EXCEPT !.pj = "empty"], [NoPart EXCEPT !.pj = "null"],
              [NoPart EXCEPT !.pj = "nondict"],
              [DictPart EXCEPT !.text = Fld(<<"P">>)],
              [DictPart EXCEPT !.text = Fld(<<>>)],
              [DictPart EXCEPT !.tool = Fld(<<"curl">>)]}
ToolParts == {NoPart, [NoPart EXCEPT !.pj = "empty"], [NoPart EXCEPT !.pj = "nondict"],
              [DictPart EXCEPT !.tool = Fld(<<"curl">>), !.state = FullState],
              [DictPart EXCEPT !.tool = Fld(<<"curl">>)],
              [DictPart EXCEPT !.state = FullState],
              [DictPart EXCEPT !.state = [FullState EXCEPT !.status = NoField, !.output = "<absent>"]],
              [DictPart EXCEPT !.state = [NoState EXCEPT !.sj = "nondict"]]}
ToolTops == {Obj,
             [Obj EXCEPT !.tool_name = Fld(<<"name">>), !.input = "{param}", !.output = "{status}"],
             [Obj EXCEPT !.tool = Fld(<<"tool">>), !.input = "{param}"],
             [Obj EXCEPT !.tool_name = Fld(<<"name">>), !.tool = Fld(<<"tool">>)]}

TextDocs == {[Obj EXCEPT !.type = "text", !.text = t, !.part = p] : t \in TopTexts, p \in TextParts}
StepDocs == {[Obj EXCEPT !.type = ty, !.text = t, !.part = p] :
                ty \in {"step_start", "step_finish"}, t \in {NoField, Fld(<<"T">>)},
                p \in {NoPart, [DictPart EXCEPT !.text = Fld(<<"P">>)]}}
ToolDocs == {[o EXCEPT !.type = "tool_use", !.part = p] : o \in ToolTops, p \in ToolParts}
SummaryDocs == {[Obj EXCEPT !.type = "error", !.message = Fld(<<"boom">>)],
                [Obj EXCEPT !.type = "error"],
                [Obj EXCEPT !.type = "command", !.command = Fld(<<"ls">>)],
                [Obj EXCEPT !.type = "file", !.path = Fld(<<"a.txt">>), !.size = Fld(<<"12">>)],
                [Obj EXCEPT !.type = "file", !.path = Fld(<<"a.txt">>)],
                [Obj EXCEPT !.type = "directory", !.path = Fld(<<"dir">>)],
                [Obj EXCEPT !.type = "completed"]}
UnknownDocs == {[Obj EXCEPT !.type = "weird", !.text = Fld(<<"T">>)], Obj,
                [Obj EXCEPT !.text = Fld(<<"T">>)]}
NonObjectDocs == {[NoDoc EXCEPT !.j = k] : k \in {"num", "str", "arr", "null"}}
Docs == TextDocs \cup StepDocs \cup ToolDocs \cup SummaryDocs \cup UnknownDocs \cup NonObjectDocs

\* the lines process_output_line is applied to
LineChars == {" ", "\n", "x", "7", "{"}
PadChars == {" ", "x"}
SeqsUpTo(A, n) == UNION {[1..k -> A] : k \in 0..n}
CharLines == {S(cs) : cs \in SeqsUpTo(LineChars, MaxLen)}
DocLines == {S(l) \o <<Compact(d)>> \o S(r) :
                l \in SeqsUpTo(PadChars, MaxPad), r \in SeqsUpTo(PadChars, MaxPad), d \in Docs}
Lines == CharLines \cup DocLines

\* ---------------------------------------------------------------- state
VARIABLES
    impl,       \* which copy of the controller runs
    line,       \* the argument of the last process_output_line call made alone
    result,     \* what that call returned or raised
    pc,         \* position of stream_opencode_output
    calls,      \* relay invocations finished so far
    proc,       \* Agent Process: "none", "running", "exited"
    stdoutOpen, \* the process still holds its stdout open
    exitCode,   \* the code the process exited with
    emitted,    \* the stdout lines the process wrote, in order
    nread,      \* how many of them readline() has returned
    errOut,     \* what the process wrote to stderr
    log,        \* every bot.send_message call of the invocation, in order
    exc,        \* the exception being handled by the outer except
    ran,        \* the steps after the loop the invocation has executed
    session_store, \* chat id -> the chat's entry of the session registry
    th,         \* handler thread -> the registry call it is executing
    lastSet,    \* chat id -> the session id of the last completed set
    overlap,    \* chat id -> the sets of the chat have run concurrently
    nops,       \* registry calls started so far
    vin,        \* the arguments of is_valid_session_id called alone
    vout,       \* what that call returned
    TELEGRAM_CHAT_ID,  \* the configured single-chat restriction, or "None"
    last,       \* the update handled last and what its handler did
    nupd,       \* updates handled so far
    rpc,        \* position of run_opencode_command called alone
    rproc,      \* the process subprocess.run started: "none", "running", "exited", "killed"
    rcode,      \* the code that process exited with
    elapsed,    \* seconds since subprocess.run started it
    stderrFill, \* chunks the Agent Process has written to its stderr pipe
    procBlocked \* the Agent Process is blocked in a write to the full stderr pipe

handlerVars == <<TELEGRAM_CHAT_ID, last, nupd>>
runVars == <<rpc, rproc, rcode, elapsed>>
pipeVars == <<stderrFill, procBlocked>>
botVars == <<session_store, th, lastSet, overlap, nops, vin, vout, handlerVars, runVars,
             pipeVars>>

vars == <<impl, line, result, pc, calls, proc, stdoutOpen, exitCode, emitted,
          nread, errOut, log, exc, ran, botVars>>

relayVars == <<pc, calls, proc, stdoutOpen, exitCode, emitted, nread, errOut, log, exc, ran>>

Unset == [k |-> "unset", s |-> <<>>, exc |-> ""]

RelayIdle ==
    /\ pc = "idle" /\ calls = 0 /\ proc = "none" /\ stdoutOpen = FALSE
    /\ exitCode = 0 /\ emitted = <<>> /\ nread = 0 /\ errOut = <<>>
    /\ log = <<>> /\ exc = "" /\ ran = {}

\* ------------------------------------------------------ session registry
ChatIds == {"c1", "c2"}
SessionIds == {"s1", "s2"}
Threads == 1..NThreads

\* an entry of session_store: absent, or a dict that may hold the key
\* "current_session_id"; the value None is written "None"
NoEntry == [present |-> FALSE, key |-> FALSE, sid |-> "None"]
EmptyEntry == [present |-> TRUE, key |-> FALSE, sid |-> "None"]
NoneEntry == [present |-> TRUE, key |-> TRUE, sid |-> "None"]

\* what run_opencode_command(["session", "list", "--format", "json"]) did:
\* "ok" with the ids of the listed sessions, "badjson" (stdout does not
\* decode), or the exception subprocess.run raised
ListOutcome(k, ids) == [k |-> k, ids |-> ids]
NoValidation == [sid |-> "None", out |-> ListOutcome("none", <<>>)]

\* no update handled yet
NoUpdate ==
    [kind |-> "none", chat |-> "c1", arg |-> "", out |-> ListOutcome("none", <<>>),
     before |-> [c \in ChatIds |-> NoEntry], replies |-> <<>>, relays |-> <<>>,
     raised |-> FALSE]
HandlerIdle ==
    /\ TELEGRAM_CHAT_ID = "None"
    /\ last = NoUpdate
    /\ nupd = 0
RunIdle ==
    /\ rpc = "idle" /\ rproc = "none" /\ rcode = 0 /\ elapsed = 0
    /\ stderrFill = 0 /\ procBlocked = FALSE

IdleThread == [pc |-> "idle", chat |-> "c1", arg |-> "None", ret |-> "None"]

BotIdle ==
    /\ session_store = [c \in ChatIds |-> NoEntry]
    /\ th = [t \in Threads |-> IdleThread]
    /\ lastSet = [c \in ChatIds |-> "<never>"]
    /\ overlap = [c \in ChatIds |-> FALSE]
    /\ nops = 0
    /\ vin = NoValidation
    /\ vout = [done |-> FALSE, v |-> FALSE]
    /\ HandlerIdle
    /\ RunIdle

\* ------------------------------------- process_output_line called alone
InitLine ==
    /\ impl \in Impls
    /\ line \in Lines
    /\ result = Unset
    /\ RelayIdle
    /\ BotIdle

Classify ==
    /\ result = Unset
    /\ result' = process_output_line(impl, line)
    /\ UNCHANGED <<botVars, impl, line, relayVars>>

NextLine == Classify

SpecLine == InitLine /\ [][NextLine]_vars

\* ------------------------------------------------ stream_opencode_output
\* the lines the Agent Process may write on stdout during a relay
RelayLines ==
    { <<Compact([Obj EXCEPT !.type = "text", !.text = Fld(<<"Hi">>)])>>,
      <<Compact([Obj EXCEPT !.type = "text", !.text = Fld(<<" ">>)])>>,
      <<Compact([Obj EXCEPT !.type = "text", !.text = Fld(<<"T">>),
                                !.part = [DictPart EXCEPT !.text = Fld(<<"P">>)]])>>,
      <<Compact([Obj EXCEPT !.type = "step_start", !.text = Fld(<<"T">>)])>>,
      S(<<"x", ".">>),
      S(<<"7">>),
      <<>> }
StderrTexts == {S(<<"E", ".">>)}
ExitCodes == {0, 2}

Msg(kind, idx, text, ok) == [kind |-> kind, idx |-> idx, text |-> text, ok |-> ok]

\* the text handed to bot.send_message at each call site
LineMessage(im, formatted) == IF im = "ckpt" THEN escape_only_dots(formatted) ELSE formatted
ErrorText(im, text) == IF im = "ckpt" THEN escape_markdown_v2(text) ELSE text
StderrMessage(im, stderr_output) == ErrorText(im, S(<<"Error", ":", " ">>) \o stderr_output)
ExitMessage(im, return_code) ==
    ErrorText(im, S(<<"Command failed with exit code", " ", ToString(return_code)>>))
ExceptMessage(im, e) ==
    ErrorText(im, S(<<"Error occurred while running command", ":", " ", e>>))

\* the test that guards the send of a line's rendering
ShouldSend(im, formatted) ==
    IF im = "root" THEN formatted.k = "str" /\ Truthy(strip(formatted.s))
    ELSE formatted.k = "str" /\ Truthy(formatted.s) /\ Truthy(strip(formatted.s))

\* the rendering of a line read from stdout: ckpt skips a blank line unparsed
Formatted(im, output) ==
    IF im = "ckpt" /\ ~Truthy(strip(output)) THEN StrRes(<<>>)
    ELSE process_output_line(im, strip(output))

\* stream_opencode_output(chat_id, command_args) is called
Call ==
    /\ pc = "idle" /\ calls < MaxCalls
    /\ pc' = "launch"
    /\ proc' = "none" /\ stdoutOpen' = FALSE /\ exitCode' = 0
    /\ emitted' = <<>> /\ nread' = 0 /\ errOut' = <<>> /\ log' = <<>> /\ exc' = ""
    /\ ran' = {}
    /\ stderrFill' = 0 /\ procBlocked' = FALSE
    /\ UNCHANGED <<session_store, th, lastSet, overlap, nops, vin, vout, handlerVars, runVars,
                   impl, line, result, calls>>

\* subprocess.Popen returns the running process
LaunchOk ==
    /\ pc = "launch"
    /\ pc' = "read" /\ proc' = "running" /\ stdoutOpen' = TRUE
    /\ UNCHANGED <<botVars, impl, line, result, calls, exitCode, emitted, nread, errOut, log, exc, ran>>

\* subprocess.Popen raises (or, in ckpt, the typing indicator before it does)
LaunchRaises ==
    /\ pc = "launch"
    /\ \E e \in {"FileNotFoundError", "PermissionError"} \cup
                (IF impl = "ckpt" THEN {"ApiException"} ELSE {}) :
          exc' = e
    /\ pc' = "except"
    /\ UNCHANGED <<botVars, impl, line, result, calls, proc, stdoutOpen, exitCode, emitted,
                   nread, errOut, log, ran>>

\* the Agent Process writes one line to stdout
ProcWrite ==
    /\ proc = "running" /\ ~procBlocked /\ stdoutOpen /\ Len(emitted) < MaxLines
    /\ \E l \in RelayLines : emitted' = Append(emitted, l)
    /\ UNCHANGED <<botVars, impl, line, result, pc, calls, proc, stdoutOpen, exitCode, nread,
                   errOut, log, exc, ran>>

\* the Agent Process writes to stderr
ProcWriteStderr ==
    /\ proc = "running" /\ ~procBlocked /\ errOut = <<>>
    /\ \E e \in StderrTexts : errOut' = e
    /\ UNCHANGED <<botVars, impl, line, result, pc, calls, proc, stdoutOpen, exitCode, emitted,
                   nread, log, exc, ran>>

\* the Agent Process closes stdout before it exits
ProcCloseStdout ==
    /\ proc = "running" /\ ~procBlocked /\ stdoutOpen
    /\ stdoutOpen' = FALSE
    /\ UNCHANGED <<botVars, impl, line, result, pc, calls, proc, exitCode, emitted, nread,
                   errOut, log, exc, ran>>

\* the Agent Process exits; its pipes are closed with it
ProcExit ==
    /\ proc = "running" /\ ~procBlocked
    /\ \E c \in ExitCodes : exitCode' = c
    /\ proc' = "exited" /\ stdoutOpen' = FALSE
    /\ UNCHANGED <<botVars, impl, line, result, pc, calls, emitted, nread, errOut, log, exc, ran>>

\* a readline that returns the newest buffered line first
NextLineIndex_newest_first(n, len) == len - n

\* readline() returns the oldest line not yet read
NextLineIndex(n, len) == n + 1

\* one pass of the loop body with a line: readline, render, send
ReadLine ==
    /\ pc = "read" /\ nread < Len(emitted)
    /\ nread' = nread + 1
    /\ \E idx \in {NextLineIndex(nread, Len(emitted))} :
       \E formatted \in {Formatted(impl, emitted[idx] \o S(<<"\n">>))} :
          IF formatted.k = "raise"
             THEN /\ pc' = "except" /\ exc' = formatted.exc /\ log' = log
          ELSE IF ShouldSend(impl, formatted)
             THEN /\ \E ok \in BOOLEAN :
                        log' = Append(log, Msg("line", idx,
                                               LineMessage(impl, formatted.s), ok))
                  /\ pc' = "read" /\ exc' = exc
          ELSE /\ pc' = "read" /\ exc' = exc /\ log' = log
    /\ UNCHANGED <<botVars, impl, line, result, calls, proc, stdoutOpen, exitCode, emitted, errOut, ran>>

\* a loop that stops at the first empty read
BreakLoop_on_empty_read(eof, p) == eof

\* if output == '' and process.poll() is not None: break
BreakLoop(eof, p) == eof /\ p = "exited"

\* readline returns '' and poll() is not None: break
ReadEOF ==
    /\ pc = "read" /\ BreakLoop(nread = Len(emitted) /\ ~stdoutOpen, proc)
    /\ pc' = "stderr"
    /\ UNCHANGED <<botVars, impl, line, result, calls, proc, stdoutOpen, exitCode, emitted,
                   nread, errOut, log, exc, ran>>

\* process.stderr.read() and the send of a non-empty result
ReadStderr ==
    /\ pc = "stderr"
    /\ IF Truthy(errOut)
          THEN \E ok \in BOOLEAN :
                  /\ log' = Append(log, Msg("stderr", 0, StderrMessage(impl, errOut), ok))
                  /\ pc' = IF ok THEN "exit" ELSE "except"
                  /\ exc' = IF ok THEN exc ELSE "ApiException"
          ELSE /\ pc' = "exit" /\ log' = log /\ exc' = exc
    /\ UNCHANGED <<botVars, impl, line, result, calls, proc, stdoutOpen, exitCode, emitted,
                   nread, errOut>>
    /\ ran' = ran \cup {"stderr"}

\* return_code = process.poll() and the report of a non-zero code
CheckExit ==
    /\ pc = "exit"
    /\ IF exitCode # 0
          THEN \E ok \in BOOLEAN :
                  /\ log' = Append(log, Msg("exit", 0, ExitMessage(impl, exitCode), ok))
                  /\ pc' = IF ok THEN "done" ELSE "except"
                  /\ exc' = IF ok THEN exc ELSE "ApiException"
          ELSE /\ pc' = "done" /\ log' = log /\ exc' = exc
    /\ UNCHANGED <<botVars, impl, line, result, calls, proc, stdoutOpen, exitCode, emitted,
                   nread, errOut>>
    /\ ran' = ran \cup {"exit"}

\* the outer except Exception: report, and propagate if the report fails
Except ==
    /\ pc = "except"
    /\ \E ok \in BOOLEAN :
          /\ log' = Append(log, Msg("error", 0, ExceptMessage(impl, exc), ok))
          /\ pc' = IF ok THEN "done" ELSE "raised"
    /\ UNCHANGED <<botVars, impl, line, result, calls, proc, stdoutOpen, exitCode, emitted,
                   nread, errOut, exc, ran>>

\* control is back in the caller
Return ==
    /\ pc \in {"done", "raised"}
    /\ pc' = "idle" /\ calls' = calls + 1
    /\ UNCHANGED <<botVars, impl, line, result, proc, stdoutOpen, exitCode, emitted, nread,
                   errOut, log, exc, ran>>

Init ==
    /\ impl \in Impls
    /\ line = <<>>
    /\ result = Unset
    /\ RelayIdle
    /\ BotIdle

Next ==
    \/ Call
    \/ LaunchOk
    \/ LaunchRaises
    \/ ProcWrite
    \/ ProcWriteStderr
    \/ ProcCloseStdout
    \/ ProcExit
    \/ ReadLine
    \/ ReadEOF
    \/ ReadStderr
    \/ CheckExit
    \/ Except
    \/ Return

Spec == Init /\ [][Next]_vars

\* ------------------------------------------------- the stderr pipe
\* Popen(..., stderr=subprocess.PIPE): what the process writes to stderr
\* stays in the pipe until process.stderr.read(), which runs after the loop.
\* The process writes one more chunk into the pipe
ProcWriteStderrChunk ==
    /\ proc = "running" /\ ~procBlocked /\ stderrFill < PipeCapacity
    /\ stderrFill' = stderrFill + 1
    /\ errOut' = errOut \o S(<<"E">>)
    /\ UNCHANGED <<procBlocked, session_store, th, lastSet, overlap, nops, vin, vout,
                   handlerVars, runVars, impl, line, result, pc, calls, proc, stdoutOpen,
                   exitCode, emitted, nread, log, exc, ran>>

\* the process writes to the full pipe: the write blocks until someone reads
ProcBlocksOnStderr ==
    /\ proc = "running" /\ ~procBlocked /\ stderrFill = PipeCapacity
    /\ procBlocked' = TRUE
    /\ UNCHANGED <<stderrFill, session_store, th, lastSet, overlap, nops, vin, vout,
                   handlerVars, runVars, impl, line, result, relayVars>>

NextPipe ==
    \/ Call
    \/ LaunchOk
    \/ LaunchRaises
    \/ ProcWrite
    \/ ProcWriteStderrChunk
    \/ ProcBlocksOnStderr
    \/ ProcCloseStdout
    \/ ProcExit
    \/ ReadLine
    \/ ReadEOF
    \/ ReadStderr
    \/ CheckExit
    \/ Except
    \/ Return

SpecPipe == Init /\ [][NextPipe]_vars

\* the relay's thread keeps running: each statement of stream_opencode_output
\* that can execute eventually does
SpecFair ==
    /\ Init /\ [][Next]_vars
    /\ WF_vars(ReadLine) /\ WF_vars(ReadEOF) /\ WF_vars(ReadStderr)
    /\ WF_vars(CheckExit) /\ WF_vars(Except)

\* ------------------------------- set/get_current_session_id, by statement
\* what get_current_session_id reads from the store for chat c
Value(store, c) == IF store[c].present /\ store[c].key THEN store[c].sid ELSE "None"

\* a store that keeps one current session for all chats
StoreSession_all_chats(store, c, x) ==
    [d \in ChatIds |-> [present |-> TRUE, key |-> TRUE, sid |-> x]]

\* session_store[chat_id]["current_session_id"] = session_id
StoreSession(store, c, x) ==
    [store EXCEPT ![c] = [present |-> TRUE, key |-> TRUE, sid |-> x]]

\* the entry the copy creates for a chat it has not seen
FreshEntry(im) == IF im = "root" THEN NoneEntry ELSE EmptyEntry

InSet(t, c) == th[t].chat = c /\ th[t].pc \in {"set_check", "set_create", "set_store"}
Alone == \A u \in Threads : th[u].pc = "idle"

\* a handler thread calls set_current_session_id(c, x)
BeginSet(t, c, x) ==
    /\ th[t].pc = "idle" /\ nops < MaxOps
    /\ th' = [th EXCEPT ![t] = [pc |-> "set_check", chat |-> c, arg |-> x, ret |-> "None"]]
    /\ overlap' = [overlap EXCEPT ![c] = \E u \in Threads \ {t} : InSet(u, c)]
    /\ nops' = nops + 1
    /\ UNCHANGED <<pipeVars, runVars, handlerVars, vin, vout, session_store, lastSet, impl, line, result, relayVars>>

\* if chat_id not in session_store
SetCheck(t) ==
    /\ th[t].pc = "set_check"
    /\ th' = [th EXCEPT ![t].pc = IF session_store[th[t].chat].present
                                      THEN "set_store" ELSE "set_create"]
    /\ UNCHANGED <<pipeVars, runVars, handlerVars, vin, vout, session_store, lastSet, overlap, nops, impl, line, result, relayVars>>

\* session_store[chat_id] = {} (root: {"current_session_id": None})
SetCreate(t) ==
    /\ th[t].pc = "set_create"
    /\ session_store' = [session_store EXCEPT ![th[t].chat] = FreshEntry(impl)]
    /\ th' = [th EXCEPT ![t].pc = "set_store"]
    /\ UNCHANGED <<pipeVars, runVars, handlerVars, vin, vout, lastSet, overlap, nops, impl, line, result, relayVars>>

\* the assignment of the session id, and the return
SetStore(t) ==
    /\ th[t].pc = "set_store"
    /\ session_store' = StoreSession(session_store, th[t].chat, th[t].arg)
    /\ lastSet' = [lastSet EXCEPT ![th[t].chat] = th[t].arg]
    /\ th' = [th EXCEPT ![t].pc = "idle"]
    /\ UNCHANGED <<pipeVars, runVars, handlerVars, vin, vout, overlap, nops, impl, line, result, relayVars>>

\* a handler thread calls get_current_session_id(c)
BeginGet(t, c) ==
    /\ th[t].pc = "idle" /\ nops < MaxOps
    /\ th' = [th EXCEPT ![t] = [pc |-> "get_check", chat |-> c, arg |-> "None", ret |-> "None"]]
    /\ nops' = nops + 1
    /\ UNCHANGED <<pipeVars, runVars, handlerVars, vin, vout, session_store, lastSet, overlap, impl, line, result, relayVars>>

\* if chat_id not in session_store: return None (root: create the entry)
GetCheck(t) ==
    /\ th[t].pc = "get_check"
    /\ th' = [th EXCEPT ![t].pc = IF session_store[th[t].chat].present THEN "get_read"
                                      ELSE IF impl = "root" THEN "get_create" ELSE "got"]
    /\ UNCHANGED <<pipeVars, runVars, handlerVars, vin, vout, session_store, lastSet, overlap, nops, impl, line, result, relayVars>>

\* root only: session_store[chat_id] = {"current_session_id": None}
GetCreate(t) ==
    /\ th[t].pc = "get_create"
    /\ session_store' = [session_store EXCEPT ![th[t].chat] = FreshEntry(impl)]
    /\ th' = [th EXCEPT ![t].pc = "get_read"]
    /\ UNCHANGED <<pipeVars, runVars, handlerVars, vin, vout, lastSet, overlap, nops, impl, line, result, relayVars>>

\* the read of the entry's current_session_id
GetRead(t) ==
    /\ th[t].pc = "get_read"
    /\ th' = [th EXCEPT ![t].pc = "got", ![t].ret = Value(session_store, th[t].chat)]
    /\ UNCHANGED <<pipeVars, runVars, handlerVars, vin, vout, session_store, lastSet, overlap, nops, impl, line, result, relayVars>>

\* the caller has the value get_current_session_id returned
GetReturn(t) ==
    /\ th[t].pc = "got"
    /\ th' = [th EXCEPT ![t].pc = "idle"]
    /\ UNCHANGED <<pipeVars, runVars, handlerVars, vin, vout, session_store, lastSet, overlap, nops, impl, line, result, relayVars>>

RegistryStep ==
    \E t \in Threads :
        \/ SetCheck(t)
        \/ SetCreate(t)
        \/ SetStore(t)
        \/ GetCheck(t)
        \/ GetCreate(t)
        \/ GetRead(t)
        \/ GetReturn(t)

\* handlers that run on the pool's threads at once
NextRegistry ==
    \/ \E t \in Threads, c \in ChatIds, x \in SessionIds : BeginSet(t, c, x)
    \/ \E t \in Threads, c \in ChatIds : BeginGet(t, c)
    \/ RegistryStep

SpecRegistry == Init /\ [][NextRegistry]_vars

\* calls made one after the other
NextRegistrySeq ==
    \/ \E t \in Threads, c \in ChatIds, x \in SessionIds : Alone /\ BeginSet(t, c, x)
    \/ \E t \in Threads, c \in ChatIds : Alone /\ BeginGet(t, c)
    \/ RegistryStep

SpecRegistrySeq == Init /\ [][NextRegistrySeq]_vars

\* ------------------------------------------------- is_valid_session_id
ListFailures(im) ==
    {"badjson", "CalledProcessError"} \cup (IF im = "src" THEN {} ELSE {"TimeoutExpired"})
ListOutcomes(im) ==
    {ListOutcome("ok", ids) : ids \in SeqsUpTo(SessionIds, MaxSessions)}
        \cup {ListOutcome(k, <<>>) : k \in ListFailures(im)}
AskedIds == SessionIds \cup {"s9"}

\* a membership test that looks at the first session only
InList_first_only(x, ids) == Len(ids) >= 1 /\ ids[1] = x

\* session_id in session_ids
InList(x, ids) == \E i \in 1..Len(ids) : ids[i] = x

is_valid_session_id(im, session_id, out) ==
    IF out.k = "ok" THEN InList(session_id, out.ids)
    ELSE IF im = "root" THEN TRUE
    ELSE FALSE

InitValid ==
    /\ impl \in Impls
    /\ line = <<>>
    /\ result = Unset
    /\ RelayIdle
    /\ session_store = [c \in ChatIds |-> NoEntry]
    /\ th = [t \in Threads |-> IdleThread]
    /\ lastSet = [c \in ChatIds |-> "<never>"]
    /\ overlap = [c \in ChatIds |-> FALSE]
    /\ nops = 0
    /\ vin \in {[sid |-> x, out |-> o] : x \in AskedIds, o \in ListOutcomes(impl)}
    /\ vout = [done |-> FALSE, v |-> FALSE]
    /\ HandlerIdle
    /\ RunIdle

Validate ==
    /\ ~vout.done
    /\ vout' = [done |-> TRUE, v |-> is_valid_session_id(impl, vin.sid, vin.out)]
    /\ UNCHANGED <<pipeVars, runVars, handlerVars, vin, session_store, th, lastSet, overlap, nops, impl, line, result, relayVars>>

NextValid == Validate

SpecValid == InitValid /\ [][NextValid]_vars

\* ------------------------------------------------------ the handlers
\* Only src/telegram_controller.py ("root") and the checkpoint copy ("ckpt")
\* register message handlers.  A handler runs to its end before the next
\* update is taken here; the interleaving of registry calls is SpecRegistry's.
HandlerImpls == {"root", "ckpt"}
GivenIds == {""} \cup AskedIds     \* "" : /set_session with no id
UserMessages == {"m"}
RelayOutcomes == {"returned", "raised"}

\* what the environment does during one handler: the session list command,
\* the k-th bot.reply_to / bot.send_message, bot.send_chat_action, and the
\* k-th stream_opencode_output (which raises when its own except block's
\* send fails)
\* a handler attempts two replies and starts two relays at most
Attempts == 1..2
Env(outs, acts, relays) ==
    [out : outs, oks : [Attempts -> BOOLEAN], act : acts, relay : relays]
NoRelay == {[k \in Attempts |-> "returned"]}
AnyRelay == [Attempts -> RelayOutcomes]
\* the outcomes that differ for a handler that looks at the first session only
ShortOutcomes(im) == {o \in ListOutcomes(im) : Len(o.ids) <= 1}
NoList == ListOutcome("none", <<>>)

\* a handler's progress: the registry, the replies attempted, the relays
\* started, and whether an exception is propagating
H(store) == [store |-> store, replies |-> <<>>, relays |-> <<>>, raised |-> FALSE]

\* bot.reply_to(message, text) / bot.send_message(chat_id, text)
Send(h, text, e) ==
    LET ok == e.oks[Len(h.replies) + 1]
    IN  [h EXCEPT !.replies = Append(@, [text |-> text, ok |-> ok]), !.raised = ~ok]

\* stream_opencode_output(chat_id, command_args)
Stream(h, args, e) ==
    [h EXCEPT !.relays = Append(@, args),
              !.raised = e.relay[Len(h.relays) + 1] = "raised"]

\* except Exception as e: bot.reply_to(message, "Error...")
Guarded(h, e) == IF h.raised THEN Send(h, "Error: <e>", e) ELSE h

SessionArgs(sid, msg) == [mode |-> "--session", sid |-> sid, msg |-> msg]
ContinueArgs(msg) == [mode |-> "--continue", sid |-> "None", msg |-> msg]

\* get_current_session_id as one call: root creates the entry it misses
GetSession(im, store, c) ==
    IF im = "root" /\ ~store[c].present THEN [store EXCEPT ![c] = NoneEntry] ELSE store

\* max(sessions_data, key=updated/created/0): the listed sessions carry no
\* timestamps here, so max returns the first of them
latest_session(ids) == ids[1]

\* a /set_session that takes every id that is given
Accepts_any_id(im, arg, out) == arg # ""

\* if not session_id: ... return;  if not is_valid_session_id(...): ... return
Accepts(im, arg, out) == arg # "" /\ is_valid_session_id(im, arg, out)

handle_set_session(im, store, c, arg, e) ==
    LET base == IF arg = ""
                THEN Send(H(store), "Please provide a session ID. Usage: /set_session <session_id>", e)
                ELSE IF ~Accepts(im, arg, e.out)
                THEN Send(H(store), "Invalid session ID.", e)
                ELSE Send(H(StoreSession(store, c, arg)), "Current session set to: <id>", e)
    IN  IF im = "ckpt" THEN Guarded(base, e) ELSE base

\* a reset that drops the chat's entry
ResetSession_remove_entry(store, c) == [store EXCEPT ![c] = NoEntry]

\* set_current_session_id(chat_id, None)
ResetSession(store, c) == StoreSession(store, c, "None")

handle_reset_command(store, c, e) ==
    Guarded(Send(H(ResetSession(store, c)),
                 "Session has been reset. All session data cleared.", e), e)

handle_current_session(im, store, c, e) ==
    LET st   == GetSession(im, store, c)
        base == Send(H(st), IF Value(st, c) # "None" THEN "Current session: <id>"
                            ELSE "No active session.", e)
    IN  IF im = "ckpt" THEN Guarded(base, e) ELSE base

handle_session_list(im, store, c, e) ==
    LET tried == IF im = "ckpt" /\ ~e.act THEN [H(store) EXCEPT !.raised = TRUE]
                 ELSE IF e.out.k # "ok" THEN [H(store) EXCEPT !.raised = TRUE]
                 ELSE Send(H(store), "Available Sessions: <ids>", e)
    IN  Guarded(tried, e)

handle_message_root(cfg, store, c, msg, e) ==
    IF cfg # "None" /\ c # cfg THEN H(store)
    ELSE LET st  == GetSession("root", store, c)
             sid == Value(st, c)
             h1  == IF e.act THEN H(st)
                    ELSE Send(H(st), "Executing command... Please wait.", e)
             h2  == Stream(h1, IF sid # "None" THEN SessionArgs(sid, msg)
                               ELSE ContinueArgs(msg), e)
         IN  IF h1.raised THEN h1
             ELSE IF h2.raised THEN Send(h2, "Error occurred: <e>", e)
             ELSE h2

handle_message_ckpt(store, c, msg, e) ==
    LET sid == Value(store, c)
        Fresh(h) == LET s1 == Send(h, "Executing command... Please wait.", e)
                    IN  IF s1.raised THEN s1 ELSE Stream(s1, ContinueArgs(msg), e)
        tried == IF e.out.k # "ok" THEN [H(store) EXCEPT !.raised = TRUE]
                 ELSE IF e.out.ids # <<>>
                 THEN Stream(H(store), SessionArgs(latest_session(e.out.ids), msg), e)
                 ELSE Fresh(H(store))
    IN  IF sid # "None" THEN Stream(H(store), SessionArgs(sid, msg), e)
        ELSE IF tried.raised THEN Fresh(tried)
        ELSE tried

handle_message(im, cfg, store, c, msg, e) ==
    IF im = "root" THEN handle_message_root(cfg, store, c, msg, e)
    ELSE handle_message_ckpt(store, c, msg, e)

\* the environment is asked only about the sends and relays the handler makes
Used(h, e) ==
    /\ \A k \in Attempts : k > Len(h.replies) => e.oks[k]
    /\ \A k \in Attempts : k > Len(h.relays) => e.relay[k] = "returned"

\* the handler of one update has run to its end
Handled(kind, c, arg, out, h, e) ==
    /\ Used(h, e)
    /\ session_store' = h.store
    /\ last' = [kind |-> kind, chat |-> c, arg |-> arg, out |-> out,
                before |-> session_store, replies |-> h.replies,
                relays |-> h.relays, raised |-> h.raised]
    /\ nupd' = nupd + 1
    /\ UNCHANGED <<pipeVars, runVars, TELEGRAM_CHAT_ID, th, lastSet, overlap, nops, vin, vout,
                   impl, line, result, relayVars>>

HandleSetSession ==
    /\ nupd < MaxUpdates
    /\ \E c \in ChatIds, arg \in GivenIds :
       \E e \in Env(IF arg = "" THEN {NoList} ELSE ListOutcomes(impl), {TRUE}, NoRelay) :
          Handled("set_session", c, arg, e.out,
               handle_set_session(impl, session_store, c, arg, e), e)

HandleReset ==
    /\ nupd < MaxUpdates /\ impl = "ckpt"
    /\ \E c \in ChatIds, e \in Env({NoList}, {TRUE}, NoRelay) :
          Handled("reset", c, "", NoList, handle_reset_command(session_store, c, e), e)

HandleCurrentSession ==
    /\ nupd < MaxUpdates
    /\ \E c \in ChatIds, e \in Env({NoList}, {TRUE}, NoRelay) :
          Handled("current_session", c, "", NoList,
                  handle_current_session(impl, session_store, c, e), e)

HandleSessionList ==
    /\ nupd < MaxUpdates
    /\ \E c \in ChatIds,
          e \in Env(ShortOutcomes(impl), IF impl = "ckpt" THEN BOOLEAN ELSE {TRUE}, NoRelay) :
          Handled("session", c, "", NoList,
                  handle_session_list(impl, session_store, c, e), e)

HandleMessage ==
    /\ nupd < MaxUpdates
    /\ \E c \in ChatIds, msg \in UserMessages,
          e \in IF impl = "ckpt" THEN Env(ShortOutcomes(impl), {TRUE}, AnyRelay)
                 ELSE Env({NoList}, BOOLEAN, AnyRelay) :
          Handled("text", c, msg, NoList,
                  handle_message(impl, TELEGRAM_CHAT_ID, session_store, c, msg, e), e)

InitBot ==
    /\ impl \in HandlerImpls
    /\ line = <<>>
    /\ result = Unset
    /\ RelayIdle
    /\ session_store = [c \in ChatIds |-> NoEntry]
    /\ th = [t \in Threads |-> IdleThread]
    /\ lastSet = [c \in ChatIds |-> "<never>"]
    /\ overlap = [c \in ChatIds |-> FALSE]
    /\ nops = 0
    /\ vin = NoValidation
    /\ vout = [done |-> FALSE, v |-> FALSE]
    /\ TELEGRAM_CHAT_ID \in {"None", "c1"}
    /\ last = NoUpdate
    /\ nupd = 0
    /\ RunIdle

NextBot ==
    \/ HandleSetSession
    \/ HandleReset
    \/ HandleCurrentSession
    \/ HandleSessionList
    \/ HandleMessage

SpecBot == InitBot /\ [][NextBot]_vars

\* ------------------------------------------------- run_opencode_command
\* subprocess.run(["opencode"] + args, capture_output=True, check=True[,
\* timeout=...]) called alone.  src passes no timeout; root passes 300 and
\* ckpt COMMAND_TIMEOUT.  With a timeout, subprocess.run kills the child and
\* waits for it before it raises TimeoutExpired.
HasTimeout(im) == im # "src"

RunStart ==
    /\ rpc = "idle"
    /\ rpc' = "waiting" /\ rproc' = "running" /\ elapsed' = 0
    /\ UNCHANGED <<pipeVars, rcode, handlerVars, vin, vout, session_store, th, lastSet, overlap, nops,
                   impl, line, result, relayVars>>

\* the process ends by itself
RunProcExit ==
    /\ rproc = "running"
    /\ \E c \in ExitCodes : rcode' = c
    /\ rproc' = "exited"
    /\ UNCHANGED <<pipeVars, rpc, elapsed, handlerVars, vin, vout, session_store, th, lastSet, overlap,
                   nops, impl, line, result, relayVars>>

\* time passes while the call waits for the process
RunTick ==
    /\ rpc = "waiting" /\ rproc = "running" /\ elapsed < MaxTime
    /\ ~(HasTimeout(impl) /\ elapsed >= COMMAND_TIMEOUT)
    /\ elapsed' = elapsed + TickSeconds
    /\ UNCHANGED <<pipeVars, rpc, rproc, rcode, handlerVars, vin, vout, session_store, th, lastSet,
                   overlap, nops, impl, line, result, relayVars>>

\* the deadline passes: the child is killed and TimeoutExpired is raised
RunTimeout ==
    /\ rpc = "waiting" /\ rproc = "running"
    /\ HasTimeout(impl) /\ elapsed >= COMMAND_TIMEOUT
    /\ rproc' = "killed" /\ rpc' = "TimeoutExpired"
    /\ UNCHANGED <<pipeVars, rcode, elapsed, handlerVars, vin, vout, session_store, th, lastSet, overlap,
                   nops, impl, line, result, relayVars>>

\* check=True: a non-zero code raises CalledProcessError, which is re-raised
RunOutcome(code) == IF code = 0 THEN "returned" ELSE "CalledProcessError"

RunFinish ==
    /\ rpc = "waiting" /\ rproc = "exited"
    /\ rpc' = RunOutcome(rcode)
    /\ UNCHANGED <<pipeVars, rproc, rcode, elapsed, handlerVars, vin, vout, session_store, th, lastSet,
                   overlap, nops, impl, line, result, relayVars>>

NextRun ==
    \/ RunStart
    \/ RunProcExit
    \/ RunTick
    \/ RunTimeout
    \/ RunFinish

SpecRun == Init /\ [][NextRun]_vars

\* ------------------------------------------------ the escapers called alone
\* the full escaper of a copy: escape_md in src, escape_markdown_v2 in ckpt;
\* src/telegram_controller.py defines none
EscaperImpls == {"src", "ckpt"}
full_escape(im, text) == IF im = "src" THEN escape_md(text) ELSE escape_markdown_v2(text)

EscapeChars == ReservedMd \cup ReservedV2 \cup {"a"}
EscapeTexts == {S(cs) : cs \in SeqsUpTo(EscapeChars, MaxEsc)}

InitEscape ==
    /\ impl \in EscaperImpls
    /\ line \in EscapeTexts
    /\ result = Unset
    /\ RelayIdle
    /\ BotIdle

Escape ==
    /\ result = Unset
    /\ result' = StrRes(full_escape(impl, line))
    /\ UNCHANGED <<botVars, impl, line, relayVars>>

NextEscape == Escape

SpecEscape == InitEscape /\ [][NextEscape]_vars

\* ================================================================ claims
Finished == pc \in {"done", "raised"}
LogIdx(kind) == {m \in 1..Len(log) : log[m].kind = kind}
Decoded(l) == json_loads(l)
IsStepLine(l) == Decoded(l).ok /\ Decoded(l).obj.j = "obj"
                 /\ Decoded(l).obj.type \in {"step_start", "step_finish"}
\* the rendering of the j-th line the process wrote, as the relay computes it
Rendering(j) == Formatted(impl, emitted[j] \o S(<<"\n">>))
HasRendering(j) == Rendering(j).k = "str" /\ Truthy(strip(Rendering(j).s))

\* C1: within one relay invocation the messages sent for output lines are in
\* the order the process wrote the lines, each is the rendering of its line,
\* and no line is forwarded twice.
C1_LinesForwardedInOrder ==
    /\ \A m \in LogIdx("line") :
          /\ log[m].idx \in 1..Len(emitted)
          /\ log[m].text = LineMessage(impl, Rendering(log[m].idx).s)
    /\ \A m, n \in LogIdx("line") : m < n => log[m].idx < log[n].idx

C1_Witness ==
    /\ pc = "done"
    /\ \E m, n \in LogIdx("line") : m < n /\ log[m].idx = 1 /\ log[n].idx = 2

\* C2: if the send of one line's message fails, every later line with a
\* non-empty rendering is still attempted and the stderr and exit-code steps
\* still run once the stream has ended.
C2_RelayContinuesAfterSendFailure ==
    (Finished /\ \E m \in LogIdx("line") : ~log[m].ok) =>
        /\ \A m \in LogIdx("line") : ~log[m].ok =>
              \A j \in (log[m].idx + 1)..Len(emitted) :
                  HasRendering(j) => \E n \in LogIdx("line") : log[n].idx = j
        /\ {"stderr", "exit"} \subseteq ran

\* C3: no message is ever sent for an output line whose decoded type is
\* step_start or step_finish.
C3_StepLinesNeverForwarded ==
    \A m \in LogIdx("line") : ~IsStepLine(emitted[log[m].idx])

\* C4: when the process exited with code 0 and wrote nothing to stderr, the
\* messages of the finished relay are exactly the non-empty renderings of the
\* lines that are not step_start/step_finish, and nothing else.
C4_CleanExitOnlyLineOutput ==
    (Finished /\ proc = "exited" /\ exitCode = 0 /\ errOut = <<>>) =>
        /\ \A m \in 1..Len(log) : log[m].kind = "line"
        /\ {log[m].idx : m \in LogIdx("line")}
              = {j \in 1..Len(emitted) : ~IsStepLine(emitted[j]) /\ HasRendering(j)}

\* C5: when the process exited with a non-zero code N, the finished relay has
\* sent exactly one exit-code message carrying N, after all line messages;
\* with empty stderr it is the only message that is not a line message.
C5_NonZeroExitReportedOnce ==
    (Finished /\ proc = "exited" /\ exitCode # 0) =>
        /\ Cardinality(LogIdx("exit")) = 1
        /\ \A m \in LogIdx("exit") :
              /\ \E t \in 1..Len(log[m].text) : log[m].text[t] = Ch(ToString(exitCode))
              /\ \A n \in LogIdx("line") : n < m
        /\ errOut = <<>> => \A m \in 1..Len(log) : log[m].kind \in {"line", "exit"}

\* C6: once the process has ended its output, a non-empty stderr is sent as
\* exactly one message, after every line message and before any exit-code
\* message; an empty stderr is not sent.
C6_StderrForwardedOnce ==
    (Finished /\ proc = "exited") =>
        IF Truthy(errOut)
           THEN /\ Cardinality(LogIdx("stderr")) = 1
                /\ \A m \in LogIdx("stderr") :
                      /\ \A n \in LogIdx("line") : n < m
                      /\ \A n \in LogIdx("exit") : m < n
           ELSE LogIdx("stderr") = {}

\* C7: if launching the process raises, the relay sends exactly one error
\* message, no line, stderr or exit-code message, and returns normally.
C7_LaunchFailureContained ==
    (Finished /\ proc = "none") =>
        /\ pc = "done"
        /\ Len(log) = 1 /\ log[1].kind = "error"

\* C8: process_output_line produces a result without raising for every line
\* the relay has read, valid JSON that is not an object included, so the
\* relay never leaves the loop through an exception of the line interpreter.
C8_LineNeverAbortsRelay ==
    /\ \A j \in 1..nread : Rendering(j).k # "raise"
    /\ exc # "AttributeError"

\* R is S without its leading and trailing whitespace
IsStripOf(R, S0) ==
    \E i \in 1..(Len(S0) + 1) : \E j \in (i - 1)..Len(S0) :
        /\ R = SubSeq(S0, i, j)
        /\ \A k \in 1..(i - 1) : IsWS(S0[k])
        /\ \A k \in (j + 1)..Len(S0) : IsWS(S0[k])
        /\ i <= j => ~IsWS(S0[i]) /\ ~IsWS(S0[j])

\* C9: for every line that does not decode as JSON, process_output_line
\* returns the line without its leading and trailing whitespace (the empty
\* string for the empty line).
C9_RawLineStripped ==
    (result # Unset /\ ~Decoded(line).ok) =>
        /\ result.k = "str"
        /\ IsStripOf(result.s, line)
        /\ line = <<>> => result.s = <<>>

C9_Witness ==
    /\ result # Unset /\ ~Decoded(line).ok
    /\ Len(line) = 3 /\ IsWS(line[1]) /\ ~IsWS(line[2]) /\ IsWS(line[3])
    /\ result.s = <<line[2]>>

\* C10: for a text line that carries a nested part.text = P and a top-level
\* text = T with P # T, process_output_line returns P.
C10_NestedTextWins ==
    (/\ result # Unset
     /\ Decoded(line).ok /\ Decoded(line).obj.j = "obj"
     /\ Decoded(line).obj.type = "text"
     /\ Decoded(line).obj.text.has
     /\ Decoded(line).obj.part.pj = "dict" /\ Decoded(line).obj.part.text.has
     /\ Decoded(line).obj.part.text.v # Decoded(line).obj.text.v)
    => result = StrRes(Decoded(line).obj.part.text.v)

\* C11: after any sequence of set and get calls, get_current_session_id(c)
\* returns the session id of the most recent set on c, None if c was never
\* set, whatever was done for other chat ids.
C11_GetReturnsLastSet ==
    \A t \in Threads : th[t].pc = "got" =>
        th[t].ret = IF lastSet[th[t].chat] = "<never>" THEN "None" ELSE lastSet[th[t].chat]

C11_Witness ==
    \E t \in Threads :
        /\ th[t].pc = "got" /\ th[t].chat = "c1" /\ th[t].ret = "s1"
        /\ lastSet["c2"] = "s2"

\* C12: under concurrent handlers, once a set(c, X) has returned and no other
\* set for c overlaps or follows it the registry holds X for c, and a value
\* stored by a completed set is never replaced by None or an empty entry.
C12_RegistryAtomicPerChat ==
    \A c \in ChatIds :
        /\ (lastSet[c] # "<never>" /\ ~overlap[c] /\ \A t \in Threads : ~InSet(t, c))
              => Value(session_store, c) = lastSet[c]
        /\ lastSet[c] # "<never>" => Value(session_store, c) # "None"

\* C14: when the session list cannot be obtained (the command fails, times
\* out or prints undecodable output) is_valid_session_id returns True.
C14_ValidationFailsOpen ==
    (vout.done /\ vin.out.k # "ok") => vout.v = TRUE

\* C15: when the session list is obtained, is_valid_session_id(s) is True
\* exactly when s is the id of a session in the list.
C15_ValidIffListed ==
    (vout.done /\ vin.out.k = "ok") =>
        (vout.v <=> vin.sid \in {vin.out.ids[i] : i \in 1..Len(vin.out.ids)})

C15_Witness ==
    /\ vout.done /\ vin.out.k = "ok"
    /\ vin.sid = "s2" /\ vin.out.ids = <<"s1", "s2">> /\ vout.v = TRUE

\* C13: after /reset the chat's stored session id is None, the chat's entry
\* is still in the registry, and the other chats' entries are as before.
C13_ResetKeepsEntry ==
    last.kind = "reset" =>
        /\ session_store[last.chat].present
        /\ Value(session_store, last.chat) = "None"
        /\ \A d \in ChatIds \ {last.chat} : session_store[d] = last.before[d]

C13_Witness ==
    /\ last.kind = "reset" /\ last.chat = "c1"
    /\ Value(last.before, "c1") = "s1"
    /\ session_store["c1"].present /\ Value(session_store, "c1") = "None"

ReplyTexts(h) == {h.replies[i].text : i \in 1..Len(h.replies)}
Permitted(c) == TELEGRAM_CHAT_ID = "None" \/ c = TELEGRAM_CHAT_ID

\* C16: /set_session with no id, or with an id is_valid_session_id rejects,
\* leaves the registry as it was and a usage or "Invalid session ID." reply
\* is sent; with an accepted id the chat's stored id becomes that id.
C16_SetSessionOnlyWhenValid ==
    last.kind = "set_session" =>
        IF last.arg = ""
        THEN /\ session_store = last.before
             /\ "Please provide a session ID. Usage: /set_session <session_id>" \in ReplyTexts(last)
        ELSE IF ~is_valid_session_id(impl, last.arg, last.out)
        THEN /\ session_store = last.before
             /\ "Invalid session ID." \in ReplyTexts(last)
        ELSE /\ Value(session_store, last.chat) = last.arg
             /\ \A d \in ChatIds \ {last.chat} : session_store[d] = last.before[d]

C16_Witness ==
    /\ last.kind = "set_session" /\ last.chat = "c1" /\ last.arg = "s9"
    /\ last.out = ListOutcome("ok", <<"s1", "s2">>)
    /\ Value(last.before, "c1") = "s1" /\ Value(session_store, "c1") = "s1"
    /\ "Invalid session ID." \in ReplyTexts(last)

\* C17: a plain message starts exactly one relay, with "run --session X" when
\* the chat's stored session is X and "run --continue" when none is stored.
C17_RelayArgsFollowStoredSession ==
    (last.kind = "text" /\ Permitted(last.chat)) =>
        last.relays =
            <<IF Value(last.before, last.chat) # "None"
              THEN SessionArgs(Value(last.before, last.chat), last.arg)
              ELSE ContinueArgs(last.arg)>>

\* C18: with TELEGRAM_CHAT_ID configured, an update from another chat starts
\* no relay, changes nothing in the registry and sends no message.
C18_OtherChatsIgnored ==
    (last.kind # "none" /\ ~Permitted(last.chat)) =>
        /\ last.relays = <<>>
        /\ last.replies = <<>>
        /\ session_store = last.before

\* C19: no failure escapes a handler: every handler returns normally.
C19_NoFailureEscapesHandler ==
    last.kind # "none" => ~last.raised

\* C20: once the Agent Process has closed stdout and exited, the relay
\* eventually leaves the reading loop, reads stderr and the exit code, and
\* finishes.
C20_RelayFinishesAfterExit ==
    (pc = "read" /\ proc = "exited") ~> (Finished /\ {"stderr", "exit"} \subseteq ran)

\* the termination alone: the relay does not stay in the loop
RelayLeavesLoop == (pc = "read" /\ proc = "exited") ~> Finished

\* C21: run_opencode_command returns normally only for a process that
\* exited with code 0, is never still waiting once the deadline has passed,
\* and when it fails with a timeout the process has been terminated.
C21_BlockingRunBounded ==
    /\ rpc = "returned" => (rproc = "exited" /\ rcode = 0)
    /\ rpc = "waiting" => elapsed <= COMMAND_TIMEOUT
    /\ rpc = "TimeoutExpired" => rproc = "killed"

IsToolUseLine(l) == Decoded(l).ok /\ Decoded(l).obj.j = "obj"
                    /\ Decoded(l).obj.type = "tool_use"
OutputsOf(obj) == {obj.output, obj.part.state.output} \ {"<absent>"}

\* C22: the text rendered for a tool_use line never contains the tool's
\* output, whether it sits under part.state.output or at top level: it holds
\* no dump of an output object and no dump of the whole line.
C22_ToolRenderingOmitsOutput ==
    (result.k = "str" /\ IsToolUseLine(line)) =>
        \A i \in 1..Len(result.s) :
            /\ result.s[i].c \notin OutputsOf(Decoded(line).obj)
            /\ result.s[i].d = NoDoc

C22_Witness ==
    /\ result.k = "str" /\ IsToolUseLine(line)
    /\ Decoded(line).obj.part.state.output = "{result}"
    /\ \E i \in 1..Len(result.s) : result.s[i].c = "{url}"

C23_Reserved == {"_", "*", "[", "]", "(", ")", "~", "<backtick>", ">", "#", "+", "-",
                 "=", "|", "{", "}", ".", "!"}

RECURSIVE C23_Expected(_)
C23_Expected(s) ==
    IF s = <<>> THEN <<>>
    ELSE (IF Head(s).c \in C23_Reserved THEN <<Ch("\\"), Head(s)>> ELSE <<Head(s)>>)
         \o C23_Expected(Tail(s))

\* C23: the full escaper puts exactly one backslash before every occurrence
\* of _ * [ ] ( ) ~ ` > # + - = | { } . ! and leaves every other character as
\* it is; text with none of them comes back unchanged.
C23_FullEscaperExact ==
    result.k = "str" => result.s = C23_Expected(line)

\* C24: a failed delivery of the stderr message neither suppresses the
\* exit-code message of a non-zero exit nor causes a further error message.
C24_SendsIndependentOfFailures ==
    (Finished /\ \E m \in LogIdx("stderr") : ~log[m].ok) =>
        /\ LogIdx("error") = {}
        /\ exitCode # 0 => LogIdx("exit") # {}

\* C25: the phases of an invocation come in order: once the stderr read has
\* begun no further line message is sent, and the exit-code report and the
\* "Error occurred while running command" report never both appear in one
\* invocation.
C25_PhasesInOrder ==
    [][/\ "stderr" \in ran =>
            Cardinality(LogIdx("line"))' <= Cardinality(LogIdx("line"))
       /\ ~(LogIdx("exit")' # {} /\ LogIdx("error")' # {})]_vars

\* C26: every message of the relay is its text escaped exactly once with the
\* policy of its call site: the minimal policy (escape_only_dots) for a
\* line's rendering, the full policy (escape_markdown_v2) for the stderr,
\* exit-code and error messages.
C26_EscapedOncePerCallSite ==
    \A m \in 1..Len(log) :
        /\ log[m].kind = "line" =>
              log[m].text = escape_only_dots(Rendering(log[m].idx).s)
        /\ log[m].kind = "stderr" =>
              log[m].text = escape_markdown_v2(S(<<"Error", ":", " ">>) \o errOut)
        /\ log[m].kind = "exit" =>
              log[m].text = escape_markdown_v2(
                  S(<<"Command failed with exit code", " ", ToString(exitCode)>>))
        /\ log[m].kind = "error" =>
              log[m].text = escape_markdown_v2(
                  S(<<"Error occurred while running command", ":", " ", exc>>))

C27_ToolName(obj) ==
    IF obj.part.pj = "dict" /\ obj.part.tool.has THEN obj.part.tool.v
    ELSE IF obj.tool_name.has THEN obj.tool_name.v
    ELSE IF obj.tool.has THEN obj.tool.v
    ELSE S(<<"Unknown tool">>)

\* C27: the name rendered for a tool_use line is part.tool when present, else
\* the top-level tool_name, else the top-level tool, else "Unknown tool", also
\* when a part object is present but has no tool field.
C27_ToolNameFallback ==
    (result.k = "str" /\ IsToolUseLine(line)) =>
        LET name == C27_ToolName(Decoded(line).obj)
        IN  /\ Len(result.s) >= Len(name) + 2
            /\ SubSeq(result.s, 1, Len(name) + 2) = S(<<"[">>) \o name \o S(<<"]">>)

SummaryTypes == {"error", "command", "file", "directory", "completed"}
IsSummaryLine(l) == Decoded(l).ok /\ Decoded(l).obj.j = "obj"
                    /\ Decoded(l).obj.type \in SummaryTypes
C28_Field(obj) ==
    IF obj.type = "error" THEN GetOr(obj.message, <<>>)
    ELSE IF obj.type = "command" THEN GetOr(obj.command, <<>>)
    ELSE IF obj.type \in {"file", "directory"} THEN GetOr(obj.path, <<>>)
    ELSE S(<<"Operation", " ", "completed", " ", "successfully.">>)
Contains(s, sub) ==
    \E i \in 0..(Len(s) - Len(sub)) : SubSeq(s, i + 1, i + Len(sub)) = sub

\* C28: a line of type error, command, file, directory or completed is
\* rendered as a one-line summary holding its message, command or path (the
\* fixed success text for completed), never as a dump of the whole object.
C28_SummaryLinesRendered ==
    (result.k = "str" /\ IsSummaryLine(line)) =>
        /\ \A i \in 1..Len(result.s) : result.s[i].d = NoDoc
        /\ Contains(result.s, C28_Field(Decoded(line).obj))

\* readline() has nothing to return and stdout is still open
RelayWaitsForLine == pc = "read" /\ nread = Len(emitted) /\ stdoutOpen

\* C29: there is no reachable state in which the relay waits for the next
\* stdout line while the process is blocked writing to the full stderr pipe.
C29_NoStderrDeadlock ==
    ~(RelayWaitsForLine /\ proc = "running" /\ procBlocked)

\* C30: whenever the exit code is examined after the loop the process has
\* exited, so the code compared with 0 and put in the message is a real one.
C30_ExitCodeReadAfterExit ==
    /\ pc = "exit" => proc = "exited"
    /\ "exit" \in ran => proc = "exited"
    /\ \A m \in LogIdx("exit") : log[m].text = ExitMessage(impl, exitCode) /\ exitCode # 0

C30_Witness ==
    /\ "exit" \in ran /\ proc = "exited" /\ exitCode = 2
    /\ LogIdx("exit") # {}

====
